---- MODULE Spec2Model ----
(***************************************************************************)
(* A model of the camera service: the local image queue with its upload    *)
(* ledger (local_storage.py), the background upload worker and the         *)
(* dashboard's control calls (web_app.py), the GPIO edge detector          *)
(* (gpio_service.py) and the TCP trigger handler (trigger_server.py).      *)
(***************************************************************************)
EXTENDS Integers, Sequences, FiniteSets, TLC

(***************************************************************************)
(* Bounds of the model.                                                    *)
(***************************************************************************)
\* image files that may exist in the storage directory (queue model)
NFiles == 3
\* largest capacity (max_images) a queue is constructed with
MaxCap == 2
\* uploads counted (successful + failed) before the sync engine is left idle
MaxCount == 2
\* the same, where the sync engine runs among the calls of the queue
MaxLedgerCount == 1
\* image files and largest capacity where the sync engine runs among the
\* calls of the queue
NLedgerFiles == 2
MaxLedgerCap == 1

\* image files found in the storage directory at start (sync engine model)
NSyncFiles == 5

\* image files found at start where one cycle has more than a batch to drain
NBatchFiles == 6
\* uploads counted before the sync engine is left idle, in that model
MaxBatchCount == 2

\* image files found at start where the worker is followed step by step
NWorkerFiles == 3
\* uploads counted before the uploader is left alone, in that model
MaxWorkerCount == 2

\* image files found at start where the worker drains the queue
NDrainFiles == 6
\* failed uploads before every upload succeeds, in that model
MaxDrainFailures == 1

\* image files found at start where the upload loops overlap
NOverlapFiles == 1
\* calls made to the uploader, by all the loops together
MaxOverlapCount == 2

\* exceptions the monitor threads catch, all together
MaxCaught == 1

\* line samples taken per channel (the sample of _setup_gpio included)
MaxSamples == 4
\* threads that call add_image at the same time
NThreads == 2
\* image files in the queue before those threads start
NPreloaded == 1
\* largest capacity of the queue those threads insert into
MaxConcCap == 3
\* connections to the trigger server that are open at the same time
NConnections == 2
\* names the capture service gives to its image files
NCaptureFiles == 1
\* images stored by captures
MaxCaptured == 2
\* pieces of text a trigger payload is made of
MaxPieces == 3
\* monitor threads started by start_monitoring
MaxLoops == 2
\* how far below zero a misconfigured capacity goes
MaxDeficit == 1
\* line samples per channel where the dashboard's calls are made
MaxFlagSamples == 2

Files == 1..NFiles
LedgerFiles == 1..NLedgerFiles
SyncFiles == 1..NSyncFiles

\* LocalStorageManager(max_images=50) in init_services
WebMaxImages == 50
\* images_to_upload[:5]
BatchSize == 5

(***************************************************************************)
(* Pure helpers of local_storage.py.                                       *)
(***************************************************************************)
StorageDir == "images"

\* os.path.join(storage_dir, filename)
path_join(d, f) == [dir |-> d, name |-> f]

\* os.path.basename(filepath)
basename(p) == p.name

\* stat.st_ctime of an artifact: artifact f is the f-th file written, so
\* creation times are distinct and grow with f.
st_ctime(p) == p.name

\* the dict built for one image (size and modified are never read by an
\* operation modelled here)
image_info(p) ==
    [filename |-> basename(p), filepath |-> p, created |-> st_ctime(p)]

Range(s) == {s[i] : i \in 1..Len(s)}

Filenames(imgs) == {imgs[i].filename : i \in 1..Len(imgs)}

RECURSIVE sort_newest_first(_)
\* images.sort(key=created, reverse=True) on a set of entries
sort_newest_first(S) ==
    IF S = {} THEN <<>>
    ELSE LET newest == CHOOSE e \in S : \A o \in S : o.created <= e.created
         IN  <<newest>> \o sort_newest_first(S \ {newest})

\* _load_images: one entry per image file of the storage directory, sorted
load_images(dir) ==
    sort_newest_first({image_info(path_join(StorageDir, f)) : f \in dir})

RECURSIVE set_to_list(_)
\* list(self.uploaded_images): some listing of the set (the order is never
\* read back: the loader rebuilds a set)
set_to_list(S) ==
    IF S = {} THEN <<>>
    ELSE LET m == CHOOSE x \in S : \A y \in S : x <= y
         IN  <<m>> \o set_to_list(S \ {m})

NoFile == [kind |-> "absent"]
\* a status file opened with 'w' (truncated) whose JSON was not completed
Truncated == [kind |-> "truncated"]

\* the document _save_upload_status writes (last_updated is never read)
status_document(uploaded) ==
    [kind |-> "json", uploaded_images |-> set_to_list(uploaded)]

\* a start that does not read the status file
load_nothing(file) == {}

\* _load_upload_status: the set of the listed names; an absent file leaves
\* the empty set of __init__, an unparsable file is logged and gives set()
load_upload_status(file) ==
    IF file.kind = "json" THEN Range(file.uploaded_images) ELSE {}

\* self.uploaded_images.add(filename)
ledger_add(uploaded, f) == uploaded \cup {f}

\* is_uploaded
is_uploaded(uploaded, f) == f \in uploaded

\* get_upload_queue
get_upload_queue(imgs, uploaded) ==
    SelectSeq(imgs, LAMBDA e : ~is_uploaded(uploaded, e.filename))

\* get_uploaded_count
get_uploaded_count(uploaded) == Cardinality(uploaded)

\* self.images.insert(0, image_info)
insert_head(imgs, e) == <<e>> \o imgs

\* a loop condition that is off by one: >= in place of >
at_capacity(imgs, cap) == Len(imgs) >= cap

\* the loop condition of _manage_queue_size
over_capacity(imgs, cap) == Len(imgs) > cap

\* a pop(0) in place of pop(): the newest entry goes
pop_head(imgs) == Tail(imgs)

\* self.images.pop()
pop_last(imgs) == SubSeq(imgs, 1, Len(imgs) - 1)

RECURSIVE manage_queue_size(_, _)
\* _manage_queue_size: the list left when the loop ends (under a negative
\* capacity it ends in the IndexError of pop() on the emptied list)
manage_queue_size(imgs, cap) ==
    IF over_capacity(imgs, cap) /\ imgs # <<>>
    THEN manage_queue_size(pop_last(imgs), cap)
    ELSE imgs

\* the entries _manage_queue_size popped, whose files leave the directory
\* (moved to backup/, or deleted when the move fails)
evicted(imgs, cap) ==
    {imgs[i] : i \in (Len(manage_queue_size(imgs, cap)) + 1)..Len(imgs)}

\* remove_image: the list without its first entry named f
remove_first(imgs, f) ==
    LET i == CHOOSE j \in 1..Len(imgs) :
                 /\ imgs[j].filename = f
                 /\ \A k \in 1..(j - 1) : imgs[k].filename # f
    IN  SubSeq(imgs, 1, i - 1) \o SubSeq(imgs, i + 1, Len(imgs))

Max(a, b) == IF a > b THEN a ELSE b
Min(a, b) == IF a < b THEN a ELSE b

Reverse(s) == [i \in 1..Len(s) |-> s[Len(s) + 1 - i]]

\* the last n elements of s (all of s when it is shorter)
LastN(s, n) == SubSeq(s, Max(1, Len(s) - n + 1), Len(s))

(***************************************************************************)
(* The upload loops of web_app.py.  A loop state st holds the ledger, the   *)
(* status file, system_status and the calls made to the uploader.          *)
(***************************************************************************)
\* what uploader.upload(filepath) does: return a location, return None, raise
Outcomes == {"location", "none", "raise"}

\* storage_manager.mark_as_uploaded inside a loop
loop_mark(st, f) ==
    [st EXCEPT !.uploaded = ledger_add(st.uploaded, f),
               !.file = status_document(ledger_add(st.uploaded, f))]

\* a worker without its break statements
rest_without_break(rest) == rest

\* the entries upload_worker still tries in this cycle after a failed upload
\* (the break statements)
rest_after_failure(rest) == <<>>

\* a force_upload that stops at the first failure
force_rest_with_break(rest) == <<>>

\* the entries force_upload still tries after a failed upload (its loop has
\* no break)
force_rest_after_failure(rest) == rest

RECURSIVE upload_worker_loop(_, _, _)
\* for img_info in images_to_upload[:5] of upload_worker; answers[i] is the
\* uploader's answer to the i-th call
upload_worker_loop(batch, answers, st) ==
    IF batch = <<>> THEN st
    ELSE LET f == Head(batch).filename
             called == [st EXCEPT !.log = Append(@, <<f, Head(answers)>>)]
         IN  IF Head(answers) = "location"
             THEN upload_worker_loop(
                      Tail(batch), Tail(answers),
                      loop_mark([called EXCEPT !.status.successful_uploads = @ + 1], f))
             ELSE upload_worker_loop(
                      rest_after_failure(Tail(batch)), Tail(answers),
                      [called EXCEPT !.status.failed_uploads = @ + 1])

RECURSIVE force_upload_loop(_, _, _)
\* for img_info in upload_queue of force_upload
force_upload_loop(queue, answers, st) ==
    IF queue = <<>> THEN st
    ELSE LET f == Head(queue).filename
             called == [st EXCEPT !.log = Append(@, <<f, Head(answers)>>)]
         IN  IF Head(answers) = "location"
             THEN force_upload_loop(
                      Tail(queue), Tail(answers),
                      loop_mark([called EXCEPT !.status.successful_uploads = @ + 1], f))
             ELSE force_upload_loop(
                      force_rest_after_failure(Tail(queue)), Tail(answers),
                      [called EXCEPT !.status.failed_uploads = @ + 1])

\* a batch of the oldest pending entries: images_to_upload[-5:]
batch_of_oldest(pending) ==
    SubSeq(pending, Max(1, Len(pending) - BatchSize + 1), Len(pending))

\* images_to_upload[:5]
batch_of(pending) == SubSeq(pending, 1, Min(BatchSize, Len(pending)))

\* answers of the uploader to n calls of which the k-th is the first to fail
\* (k = 0: none fails); the worker never asks for the answers after it
FirstFailure(n, k, kind) ==
    [i \in 1..n |-> IF i = k THEN kind ELSE "location"]

(***************************************************************************)
(* Pure helpers of gpio_service.py and trigger_server.py.                  *)
(***************************************************************************)
\* self.pins, in the order its items are visited
Channels == <<"camera_1", "camera_2">>

ChannelSet == Range(Channels)

\* self.pin_states.get(pin, 1)
\* (a line level is "high" for 1 and "low" for 0)
pin_state_get(states, ch) == IF states[ch] = "unset" THEN "high" ELSE states[ch]

\* a level-triggered test: fires whenever the line reads low
line_low(previous_state, current_state) == current_state = "low"

\* previous_state == 1 and current_state == 0
falling_edge(previous_state, current_state) ==
    previous_state = "high" /\ current_state = "low"

RECURSIVE monitor_pass(_, _, _, _)
\* one pass of the for loop of _monitor_pins over the channels chs;
\* reads[ch] is what GPIO.input gives ("low", "high", or "error" when it raises: the
\* rest of the pass is skipped).  An exception of a callback is caught
\* around the call and changes nothing here.
monitor_pass(chs, registered, reads, st) ==
    IF chs = <<>> THEN st
    ELSE LET ch == Head(chs)
         IN  IF ch \notin registered
             THEN monitor_pass(Tail(chs), registered, reads, st)
             ELSE IF reads[ch] = "error" THEN st
             ELSE LET previous_state == pin_state_get(st.pin_states, ch)
                      called == IF falling_edge(previous_state, reads[ch])
                                THEN [st EXCEPT !.fired[ch] = @ + 1]
                                ELSE st
                  IN  monitor_pass(Tail(chs), registered, reads,
                          [called EXCEPT !.pin_states[ch] = reads[ch],
                                         !.samples[ch] = Append(@, reads[ch])])

\* the tokens of a trigger payload that _process_trigger looks for, after
\* trigger_data.lower()
Tokens == {"camera_1", "rfid_1", "camera_2", "rfid_2"}

\* the camera _process_trigger captures for a payload that contains the
\* tokens of the set found
trigger_camera(found) ==
    IF "camera_1" \in found \/ "rfid_1" \in found THEN "camera_1"
    ELSE IF "camera_2" \in found \/ "rfid_2" \in found THEN "camera_2"
    ELSE "camera_1"

\* str.lower(), by character
UPPER ==
    <<"A", "B", "C", "D", "E", "F", "G", "H", "I", "J", "K", "L", "M", "N",
      "O", "P", "Q", "R", "S", "T", "U", "V", "W", "X", "Y", "Z">>

LOWER ==
    <<"a", "b", "c", "d", "e", "f", "g", "h", "i", "j", "k", "l", "m", "n",
      "o", "p", "q", "r", "s", "t", "u", "v", "w", "x", "y", "z">>

lower_char(c) ==
    IF \E i \in 1..Len(UPPER) : UPPER[i] = c
    THEN LOWER[CHOOSE i \in 1..Len(UPPER) : UPPER[i] = c]
    ELSE c

\* a match that keeps the case of the payload
as_is(text) == text

RECURSIVE lower(_)
\* trigger_data.lower(): a text is the sequence of its characters
lower(text) ==
    IF text = <<>> THEN <<>>
    ELSE <<lower_char(Head(text))>> \o lower(Tail(text))

RECURSIVE lstrip(_)
lstrip(text) ==
    IF text # <<>> /\ Head(text) = " " THEN lstrip(Tail(text)) ELSE text

\* str.strip()
strip(text) == Reverse(lstrip(Reverse(lstrip(text))))

\* token in text
contains(text, token) ==
    \E i \in 0..(Len(text) - Len(token)) :
        SubSeq(text, i + 1, i + Len(token)) = token

\* the characters of each token
TokenChars(token) ==
    CASE token = "camera_1" -> <<"c", "a", "m", "e", "r", "a", "_", "1">>
      [] token = "rfid_1" -> <<"r", "f", "i", "d", "_", "1">>
      [] token = "camera_2" -> <<"c", "a", "m", "e", "r", "a", "_", "2">>
      [] token = "rfid_2" -> <<"r", "f", "i", "d", "_", "2">>

tokens_in(text) == {token \in Tokens : contains(text, TokenChars(token))}

\* _process_trigger: the camera captured for trigger_data
process_trigger(trigger_data) == trigger_camera(tokens_in(lower(trigger_data)))

(***************************************************************************)
(* State.                                                                  *)
(***************************************************************************)
VARIABLES
    \* the web process and its LocalStorageManager
    running,             \* the process is alive
    max_images,          \* LocalStorageManager.max_images
    images,              \* LocalStorageManager.images
    uploaded_images,     \* LocalStorageManager.uploaded_images
    upload_status_file,  \* content of images/upload_status.json
    disk,                \* image files present in the storage directory
    system_status,       \* web_app.system_status
    \* observers
    upload_log,          \* uploader calls of the latest drain: <<name, outcome>>
    insert_log,          \* the latest successful add_image calls, oldest first
    persisted,           \* names of the last completely written status file
    last_op,             \* the operation that led to this state
    \* GPIOService
    gpio_available,      \* GPIOService.gpio_available
    monitoring,          \* GPIOService.monitoring (the monitor thread runs)
    callbacks,           \* channels of GPIOService.callbacks
    pin_states,          \* GPIOService.pin_states, by channel
    fired,               \* observer: calls made to each channel's callback
    samples,             \* observer: levels read on each channel's line
    monitor_threads,     \* the threads started on _monitor_pins, by where they are
    stopper,             \* where the caller of stop_monitoring is
    after_stop,          \* observer: what the loop did since stop_monitoring returned
    caught,              \* observer: by monitor thread, the exceptions it caught and logged
    gpio_status,         \* web_app.gpio_status, by channel
    gpio_reply,          \* observer: the latest call of the GPIO service and its answer
    \* captures
    capturing,           \* by caller: the camera it is capturing, or "idle"
    chunk,               \* observer: the pieces of the payload being handled
    \* threads inside add_image
    pc,                  \* by thread: where it is in add_image
    start_len,           \* observer: queue length when the threads started
    \* the thread of upload_worker
    worker_at,           \* where it is in its loop, when followed step by step
    snapshots            \* by upload loop in progress: the entries it has still to upload

program_vars == <<running, max_images, images, uploaded_images,
                  upload_status_file, disk, system_status>>

observer_vars == <<upload_log, insert_log, persisted, last_op>>

gpio_vars == <<gpio_available, monitoring, callbacks, pin_states, fired, samples>>

loop_vars == <<monitor_threads, stopper, after_stop, caught>>

dashboard_vars == <<gpio_status, gpio_reply>>

\* a call of the GPIO service, its argument and its answer
Reply(op, arg, answer) == [op |-> op, arg |-> arg, answer |-> answer]

NoReply == Reply("none", "none", "none")

\* gpio_status as web_app sets it at import
DashboardIdle ==
    /\ gpio_status = [ch \in ChannelSet |-> FALSE]
    /\ gpio_reply = NoReply

thread_vars == <<pc, start_len>>

worker_vars == <<worker_at, snapshots>>

capture_vars == <<capturing, chunk>>

vars == <<program_vars, observer_vars, gpio_vars, loop_vars, dashboard_vars,
          capture_vars, thread_vars, worker_vars>>

\* the parts of the system a specification leaves out stay as they are
GpioOut ==
    /\ gpio_available = FALSE
    /\ monitoring = FALSE
    /\ callbacks = {}
    /\ pin_states = [ch \in ChannelSet |-> "unset"]
    /\ fired = [ch \in ChannelSet |-> 0]
    /\ samples = [ch \in ChannelSet |-> <<>>]
    /\ monitor_threads = <<>> /\ stopper = "idle" /\ after_stop = "idle"
    /\ caught = <<>>
    /\ DashboardIdle

CaptureOut == capturing = <<>> /\ chunk = <<>>

ThreadsOut == pc = <<>> /\ start_len = 0

\* the worker's iterations are taken whole, or the worker is left out
WorkerOut == worker_at = "whole" /\ snapshots = <<>>

QueueOnly ==
    UNCHANGED <<gpio_vars, loop_vars, dashboard_vars, capture_vars, thread_vars,
                worker_vars>>

\* an operation, its file argument (0: none) and its result
Op(name, arg, ok) == [op |-> name, arg |-> arg, ok |-> ok]

\* (last_check is a time: that of the import, then that of the latest
\* connectivity check)
InitialStatus ==
    [online |-> TRUE, last_check |-> "import", pending_uploads |-> 0,
     total_captures |-> 0, successful_uploads |-> 0, failed_uploads |-> 0]

\* the state init_services leaves: LocalStorageManager.__init__ has scanned
\* the directory dir and read the status file
Constructed(cap, dir, file) ==
    /\ running = TRUE
    /\ max_images = cap
    /\ disk = dir
    /\ upload_status_file = file
    /\ images = load_images(dir)
    /\ uploaded_images = load_upload_status(file)
    /\ system_status = InitialStatus

ObserversIdle ==
    /\ upload_log = <<>>
    /\ insert_log = <<>>
    /\ persisted = {}
    /\ last_op = Op("init", 0, TRUE)

(***************************************************************************)
(* Operations of the local queue (on the program's variables).             *)
(***************************************************************************)
\* an add_image that records the entry without looking for the file
add_image_unchecked(f) ==
    /\ running
    /\ LET grown == insert_head(images, image_info(path_join(StorageDir, f)))
       IN  /\ images' = manage_queue_size(grown, max_images)
           /\ disk' = disk \ {x.filename : x \in evicted(grown, max_images)}
    /\ UNCHANGED <<running, max_images, uploaded_images, upload_status_file,
                   system_status>>

\* add_image(filepath) for the artifact f of the storage directory
add_image(f) ==
    /\ running
    /\ IF f \notin disk
       THEN UNCHANGED <<images, disk>>
       ELSE LET grown == insert_head(images, image_info(path_join(StorageDir, f)))
            IN  /\ images' = manage_queue_size(grown, max_images)
                /\ disk' = disk \ {x.filename : x \in evicted(grown, max_images)}
    /\ UNCHANGED <<running, max_images, uploaded_images, upload_status_file,
                   system_status>>

\* a remove_image that also drops the name from the ledger
remove_image_and_forget(f) ==
    /\ running
    /\ IF f \in Filenames(images)
       THEN /\ images' = remove_first(images, f)
            /\ disk' = disk \ {f}
            /\ uploaded_images' = uploaded_images \ {f}
       ELSE UNCHANGED <<images, disk, uploaded_images>>
    /\ UNCHANGED <<running, max_images, upload_status_file, system_status>>

\* remove_image(filename)
remove_image(f) ==
    /\ running
    /\ IF f \in Filenames(images)
       THEN /\ images' = remove_first(images, f)
            /\ disk' = disk \ {f}
       ELSE UNCHANGED <<images, disk>>
    /\ UNCHANGED <<running, max_images, uploaded_images, upload_status_file,
                   system_status>>

\* a mark_as_uploaded that appends the name to the list in the status file
mark_as_uploaded_appending(f) ==
    /\ running
    /\ uploaded_images' = ledger_add(uploaded_images, f)
    /\ upload_status_file' =
           [kind |-> "json",
            uploaded_images |->
                Append(IF upload_status_file.kind = "json"
                       THEN upload_status_file.uploaded_images ELSE <<>>, f)]
    /\ UNCHANGED <<running, max_images, images, disk, system_status>>

\* a mark_as_uploaded that records only names of entries of the queue
mark_as_uploaded_if_queued(f) ==
    /\ running
    /\ uploaded_images' = IF f \in Filenames(images)
                          THEN ledger_add(uploaded_images, f)
                          ELSE uploaded_images
    /\ upload_status_file' = status_document(uploaded_images')
    /\ UNCHANGED <<running, max_images, images, disk, system_status>>

\* mark_as_uploaded(filename): add to the set, rewrite the status file
mark_as_uploaded(f) ==
    /\ running
    /\ uploaded_images' = ledger_add(uploaded_images, f)
    /\ upload_status_file' = status_document(uploaded_images')
    /\ UNCHANGED <<running, max_images, images, disk, system_status>>

\* an image file appears in the storage directory without add_image (the
\* capture service writing an artifact, or a copy made by hand)
write_file(f) ==
    /\ running
    /\ f \notin disk
    /\ disk' = disk \cup {f}
    /\ UNCHANGED <<running, max_images, images, uploaded_images,
                   upload_status_file, system_status>>

\* scan_existing_images: storage_manager.images = storage_manager._load_images()
scan_existing_images ==
    /\ running
    /\ images' = load_images(disk)
    /\ UNCHANGED <<running, max_images, uploaded_images, upload_status_file,
                   disk, system_status>>

\* get_status: the handler refreshes two fields of system_status
\* a get_status that also files the ledger's size as successful_uploads
get_status_counting ==
    /\ running
    /\ system_status' =
           [system_status EXCEPT
               !.pending_uploads = Len(get_upload_queue(images, uploaded_images)),
               !.total_captures = Len(images),
               !.successful_uploads = get_uploaded_count(uploaded_images)]
    /\ UNCHANGED <<running, max_images, images, uploaded_images,
                   upload_status_file, disk>>

get_status ==
    /\ running
    /\ system_status' =
           [system_status EXCEPT
               !.pending_uploads = Len(get_upload_queue(images, uploaded_images)),
               !.total_captures = Len(images)]
    /\ UNCHANGED <<running, max_images, images, uploaded_images,
                   upload_status_file, disk>>

(***************************************************************************)
(* Operations of the sync engine (on the program's variables).             *)
(***************************************************************************)
LoopStart ==
    [uploaded |-> uploaded_images, file |-> upload_status_file,
     status |-> system_status, log |-> <<>>]

\* one online cycle of upload_worker, up to the refresh of pending_uploads
worker_result(answers) ==
    LET st == upload_worker_loop(
                  batch_of(get_upload_queue(images, uploaded_images)), answers,
                  [LoopStart EXCEPT !.status.online = TRUE,
                                    !.status.last_check = "check"])
    IN  [st EXCEPT !.status.pending_uploads =
                       Len(get_upload_queue(images, st.uploaded))]

\* a worker that takes what it has uploaded out of the queue
upload_worker_removing(online, answers) ==
    /\ running
    /\ IF online
       THEN /\ uploaded_images' = worker_result(answers).uploaded
            /\ upload_status_file' = worker_result(answers).file
            /\ system_status' = worker_result(answers).status
            /\ images' = get_upload_queue(images, uploaded_images')
       ELSE /\ system_status' = [system_status EXCEPT !.online = FALSE,
                                                       !.last_check = "check"]
            /\ UNCHANGED <<uploaded_images, upload_status_file, images>>
    /\ UNCHANGED <<running, max_images, disk>>

\* one iteration of upload_worker: check_internet_connection() gave online
upload_worker(online, answers) ==
    /\ running
    /\ IF online
       THEN /\ uploaded_images' = worker_result(answers).uploaded
            /\ upload_status_file' = worker_result(answers).file
            /\ system_status' = worker_result(answers).status
       ELSE /\ system_status' = [system_status EXCEPT !.online = FALSE,
                                                       !.last_check = "check"]
            /\ UNCHANGED <<uploaded_images, upload_status_file>>
    /\ UNCHANGED <<running, max_images, images, disk>>

force_result(answers) ==
    force_upload_loop(get_upload_queue(images, uploaded_images), answers, LoopStart)

\* force_upload: check_internet_connection() gave online
force_upload(online, answers) ==
    /\ running
    /\ IF online
       THEN /\ uploaded_images' = force_result(answers).uploaded
            /\ upload_status_file' = force_result(answers).file
            /\ system_status' = force_result(answers).status
       ELSE UNCHANGED <<uploaded_images, upload_status_file, system_status>>
    /\ UNCHANGED <<running, max_images, images, disk>>

(***************************************************************************)
(* The capture handlers of web_app.py (capture_image and the two GPIO      *)
(* callbacks share this body).                                             *)
(***************************************************************************)
\* the handler once the capture service has returned 'local:<path of f>':
\* the artifact is in the directory, add_image, one upload, mark on success
store_and_upload(f, answer) ==
    /\ running
    /\ LET grown == insert_head(images, image_info(path_join(StorageDir, f)))
       IN  /\ images' = manage_queue_size(grown, max_images)
           /\ disk' = (disk \cup {f}) \
                          {x.filename : x \in evicted(grown, max_images)}
    /\ IF answer = "location"
       THEN /\ uploaded_images' = ledger_add(uploaded_images, f)
            /\ upload_status_file' = status_document(uploaded_images')
       ELSE UNCHANGED <<uploaded_images, upload_status_file>>
    /\ UNCHANGED <<running, max_images, system_status>>

(***************************************************************************)
(* Process death and the next start.                                       *)
(***************************************************************************)
\* what is left of the process memory once the process is gone
Dead ==
    /\ running' = FALSE
    /\ images' = <<>>
    /\ uploaded_images' = {}
    /\ system_status' = InitialStatus

\* the process is killed outside a write of the status file
kill ==
    /\ running
    /\ Dead
    /\ UNCHANGED <<max_images, upload_status_file, disk>>

\* the status file left when the process dies inside _save_upload_status:
\* open(file, 'w') has emptied it and json.dump has not completed
interrupted_save(old, uploaded) == Truncated

\* mark_as_uploaded(f) with the process killed inside _save_upload_status
kill_in_save(f) ==
    /\ running
    /\ upload_status_file' =
           interrupted_save(upload_status_file, ledger_add(uploaded_images, f))
    /\ Dead
    /\ UNCHANGED <<max_images, disk>>

\* a start whose constructor lets the error of an unreadable status file
\* out: the process does not come up
restart_fatal ==
    /\ ~running
    /\ IF upload_status_file.kind = "truncated"
       THEN UNCHANGED <<running, images, uploaded_images, system_status>>
       ELSE /\ running' = TRUE
            /\ images' = load_images(disk)
            /\ uploaded_images' = load_upload_status(upload_status_file)
            /\ system_status' = InitialStatus
    /\ UNCHANGED <<max_images, upload_status_file, disk>>

\* the next start: init_services builds LocalStorageManager again
restart ==
    /\ ~running
    /\ running' = TRUE
    /\ images' = load_images(disk)
    /\ uploaded_images' = load_upload_status(upload_status_file)
    /\ system_status' = InitialStatus
    /\ UNCHANGED <<max_images, upload_status_file, disk>>

(***************************************************************************)
(* The local queue, driven one call at a time.                             *)
(***************************************************************************)
\* a first start (no status file yet) on any content of the directory
FirstStart(files, maxcap) ==
    /\ \E cap \in 1..maxcap, dir \in SUBSET files : Constructed(cap, dir, NoFile)
    /\ ObserversIdle /\ WorkerOut
    /\ GpioOut /\ CaptureOut /\ ThreadsOut

InitQueue == FirstStart(Files, MaxCap)

\* what add_image returns: False without the file, and False when the
\* loop of _manage_queue_size raised (pop() on the emptied list)
add_image_returns(f) == f \in disk /\ ~over_capacity(<<>>, max_images)

\* last_op.arg: the oldest entry the call evicted (0: none)
Insert(f) ==
    /\ QueueOnly
    /\ add_image(f)
    /\ last_op' =
           LET grown == insert_head(images, image_info(path_join(StorageDir, f)))
           IN  Op("add_image",
                  IF f \in disk /\ over_capacity(grown, max_images)
                  THEN grown[Len(grown)].filename ELSE 0,
                  add_image_returns(f))
    /\ UNCHANGED <<upload_log, persisted>>

\* the observer of the latest successful inserts
LogInsert(f) ==
    insert_log' =
        IF f \in disk
        THEN LastN(Append(insert_log, image_info(path_join(StorageDir, f))),
                   max_images + 1)
        ELSE insert_log

\* a removal ends the run of inserts the observer follows
LogRemove(f) ==
    insert_log' = IF f \in Filenames(images) THEN <<>> ELSE insert_log

Remove(f) ==
    /\ QueueOnly
    /\ remove_image(f)
    /\ last_op' = Op("remove_image", 0, f \in Filenames(images))
    /\ UNCHANGED <<upload_log, persisted>>

\* last_op.ok: the name was not in the ledger yet
MarkUploaded(f) ==
    /\ QueueOnly
    /\ mark_as_uploaded(f)
    /\ persisted' = uploaded_images'
    /\ last_op' = Op("mark_as_uploaded", f, ~is_uploaded(uploaded_images, f))
    /\ UNCHANGED <<upload_log, insert_log>>

WriteFile(f) ==
    /\ QueueOnly
    /\ write_file(f)
    /\ last_op' = Op("write_file", 0, TRUE)
    /\ UNCHANGED <<upload_log, insert_log, persisted>>

Rescan ==
    /\ QueueOnly
    /\ scan_existing_images
    /\ insert_log' = <<>>
    /\ last_op' = Op("scan_existing_images", 0, TRUE)
    /\ UNCHANGED <<upload_log, persisted>>

GetStatus ==
    /\ QueueOnly
    /\ get_status
    /\ last_op' = Op("get_status", 0, TRUE)
    /\ UNCHANGED <<upload_log, insert_log, persisted>>

\* the sync engine stays idle once limit uploads have been counted
SyncBudget(limit) ==
    system_status.successful_uploads + system_status.failed_uploads < limit

\* a cycle of the worker that finds no connection
OfflineCycle ==
    /\ QueueOnly
    /\ upload_worker(FALSE, <<>>)
    /\ last_op' = Op("upload_worker", 0, FALSE)
    /\ UNCHANGED <<insert_log, persisted>>

\* the uploader's answers in a cycle whose k-th upload fails (0: none)
DrainAnswers(k, kind) ==
    FirstFailure(Len(batch_of(get_upload_queue(images, uploaded_images))),
                 k, kind)

\* a cycle of the worker that finds a connection; the k-th upload fails
DrainCycle(k, kind) ==
    /\ QueueOnly
    /\ upload_worker(TRUE, DrainAnswers(k, kind))
    /\ last_op' = Op("upload_worker", 0, TRUE)
    /\ UNCHANGED <<insert_log, persisted>>

\* a force-upload request that finds a connection
ForceDrain(answers) ==
    /\ QueueOnly
    /\ force_upload(TRUE, answers)
    /\ last_op' = Op("force_upload", 0, TRUE)
    /\ UNCHANGED <<insert_log, persisted>>

\* the observer of the uploader's calls
LogWorker(answers) == upload_log' = worker_result(answers).log
LogForce(answers) == upload_log' = force_result(answers).log

PendingCount == Len(get_upload_queue(images, uploaded_images))

(***************************************************************************)
(* SpecCapacity: the calls that change the queue's sequence.               *)
(***************************************************************************)
NextCapacity ==
    \/ \E f \in Files : Insert(f) /\ LogInsert(f)
    \/ \E f \in Files : Remove(f) /\ LogRemove(f)
    \/ \E f \in Files : WriteFile(f)
    \/ Rescan

SpecCapacity == InitQueue /\ [][NextCapacity]_vars

(***************************************************************************)
(* The same calls on a queue constructed with any capacity, zero and       *)
(* negative ones included: __init__ stores max_images as it is given.      *)
(***************************************************************************)
InitAnyCapacity ==
    /\ \E cap \in (0 - MaxDeficit)..MaxCap, dir \in SUBSET Files :
           Constructed(cap, dir, NoFile)
    /\ ObserversIdle /\ WorkerOut
    /\ GpioOut /\ CaptureOut /\ ThreadsOut

SpecConstruct == InitAnyCapacity /\ [][NextCapacity]_vars

(***************************************************************************)
(* SpecLedger: every call that reads or writes the ledger, one at a time.  *)
(***************************************************************************)
Capture(f, answer) ==
    /\ QueueOnly
    /\ store_and_upload(f, answer)
    /\ last_op' = Op("capture_image", 0, answer = "location")
    /\ UNCHANGED <<upload_log, insert_log, persisted>>

InitLedger == FirstStart(LedgerFiles, MaxLedgerCap)

NextLedger ==
    \/ \E f \in LedgerFiles : Insert(f) /\ UNCHANGED insert_log
    \/ \E f \in LedgerFiles : Remove(f) /\ UNCHANGED insert_log
    \/ \E f \in LedgerFiles : MarkUploaded(f)
    \/ \E f \in LedgerFiles : WriteFile(f)
    \/ Rescan
    \/ \E k \in 0..BatchSize, kind \in Outcomes \ {"location"} :
           /\ k <= PendingCount
           /\ SyncBudget(MaxLedgerCount)
           /\ DrainCycle(k, kind)
           /\ UNCHANGED upload_log
    \/ \E answers \in [1..PendingCount -> Outcomes] :
           /\ SyncBudget(MaxLedgerCount)
           /\ ForceDrain(answers)
           /\ UNCHANGED upload_log

SpecLedger == InitLedger /\ [][NextLedger]_vars

(***************************************************************************)
(* SpecRestart: the ledger across process death and restart.               *)
(***************************************************************************)
Kill ==
    /\ QueueOnly
    /\ kill
    /\ last_op' = Op("kill", 0, TRUE)
    /\ UNCHANGED <<upload_log, insert_log, persisted>>

KillInSave(f) ==
    /\ QueueOnly
    /\ kill_in_save(f)
    /\ last_op' = Op("kill_in_save", f, TRUE)
    /\ UNCHANGED <<upload_log, insert_log, persisted>>

Restart ==
    /\ QueueOnly
    /\ restart
    /\ last_op' = Op("restart", 0, TRUE)
    /\ UNCHANGED <<upload_log, insert_log, persisted>>

NextRestart ==
    \/ \E f \in Files : Insert(f) /\ UNCHANGED insert_log
    \/ \E f \in Files : Remove(f) /\ UNCHANGED insert_log
    \/ \E f \in Files : MarkUploaded(f)
    \/ \E f \in Files : WriteFile(f)
    \/ Kill
    \/ \E f \in Files : KillInSave(f)
    \/ Restart

SpecRestart == InitQueue /\ [][NextRestart]_vars

(***************************************************************************)
(* SpecSync: the sync engine on a queue as built at start.                 *)
(***************************************************************************)
InitSync ==
    /\ \E dir \in SUBSET SyncFiles : \E led \in SUBSET dir :
           Constructed(WebMaxImages, dir,
                       IF led = {} THEN NoFile ELSE status_document(led))
    /\ ObserversIdle /\ WorkerOut
    /\ GpioOut /\ CaptureOut /\ ThreadsOut

NextSync ==
    \/ OfflineCycle /\ upload_log' = <<>>
    \/ \E k \in 0..BatchSize, kind \in Outcomes \ {"location"} :
           /\ k <= PendingCount
           /\ SyncBudget(MaxCount)
           /\ DrainCycle(k, kind)
           /\ LogWorker(DrainAnswers(k, kind))
    \/ \E answers \in [1..PendingCount -> Outcomes] :
           /\ SyncBudget(MaxCount)
           /\ ForceDrain(answers)
           /\ LogForce(answers)
    \/ GetStatus

SpecSync == InitSync /\ [][NextSync]_vars

(***************************************************************************)
(* SpecWorker: the thread of upload_worker followed through its loop: the  *)
(* body of the try, then one of the two sleeps, then the next iteration.   *)
(***************************************************************************)
WorkerFiles == 1..NWorkerFiles

\* a thread whose exception nobody catches ends
uncaught == "ended"

\* except Exception as e: log, time.sleep(30)
except_exception == "sleep30"

\* the try body run to its end: connectivity check, batch, refresh; then
\* time.sleep(10) begins
WorkerIteration(online, answers) ==
    /\ worker_at = "check"
    /\ upload_worker(online, answers)
    /\ worker_at' = "sleep10"
    /\ upload_log' = IF online THEN worker_result(answers).log ELSE <<>>
    /\ last_op' = Op("upload_worker", 0, online)
    /\ UNCHANGED <<insert_log, persisted>>
    /\ UNCHANGED <<gpio_vars, loop_vars, dashboard_vars, capture_vars, thread_vars,
                   snapshots>>

\* the try body left by an exception outside the inner try: raised by the
\* first get_upload_queue() (done = FALSE: online and last_check are set)
\* or by the second one (done = TRUE: the batch has run, pending_uploads
\* is not refreshed)
WorkerRaises(done, answers) ==
    /\ worker_at = "check"
    /\ running
    /\ LET begun == [LoopStart EXCEPT !.status.online = TRUE,
                                      !.status.last_check = "check"]
           st == IF done
                 THEN upload_worker_loop(
                          batch_of(get_upload_queue(images, uploaded_images)),
                          answers, begun)
                 ELSE begun
       IN  /\ uploaded_images' = st.uploaded
           /\ upload_status_file' = st.file
           /\ system_status' = st.status
           /\ upload_log' = st.log
    /\ worker_at' = except_exception
    /\ last_op' = Op("upload_worker_raised", 0, done)
    /\ UNCHANGED <<running, max_images, images, disk>>
    /\ UNCHANGED <<insert_log, persisted>>
    /\ UNCHANGED <<gpio_vars, loop_vars, dashboard_vars, capture_vars, thread_vars,
                   snapshots>>

\* a worker whose body is not in a loop: the thread ends after one pass
no_loop == "ended"

\* while True: after the sleep the body runs again
while_true == "check"

\* time.sleep(10) or time.sleep(30) returns: back to while True
WorkerSleeps ==
    /\ worker_at \in {"sleep10", "sleep30"}
    /\ worker_at' = while_true
    /\ last_op' = Op("time.sleep", IF worker_at = "sleep10" THEN 10 ELSE 30, TRUE)
    /\ UNCHANGED <<program_vars, upload_log, insert_log, persisted>>
    /\ UNCHANGED <<gpio_vars, loop_vars, dashboard_vars, capture_vars, thread_vars,
                   snapshots>>

InitWorker ==
    /\ \E dir \in SUBSET WorkerFiles : \E led \in SUBSET dir :
           Constructed(WebMaxImages, dir,
                       IF led = {} THEN NoFile ELSE status_document(led))
    /\ ObserversIdle
    /\ GpioOut /\ CaptureOut /\ ThreadsOut
    /\ worker_at = "check" /\ snapshots = <<>>

\* the uploader's answers are drawn while fewer than MaxWorkerCount uploads
\* have been counted; after that the uploader is not called (no connection,
\* or an exception before the batch)
NextWorker ==
    \/ WorkerIteration(FALSE, <<>>)
    \/ \E k \in 0..BatchSize, kind \in Outcomes \ {"location"} :
           /\ k <= PendingCount
           /\ SyncBudget(MaxWorkerCount) \/ PendingCount = 0
           /\ WorkerIteration(TRUE, DrainAnswers(k, kind))
    \/ WorkerRaises(FALSE, <<>>)
    \/ \E k \in 0..BatchSize, kind \in Outcomes \ {"location"} :
           /\ k <= PendingCount
           /\ SyncBudget(MaxWorkerCount) \/ PendingCount = 0
           /\ WorkerRaises(TRUE, DrainAnswers(k, kind))
    \/ WorkerSleeps

SpecWorker == InitWorker /\ [][NextWorker]_vars

\* the thread is scheduled, and a sleep returns
SpecWorkerFair == SpecWorker /\ WF_vars(NextWorker)

(***************************************************************************)
(* SpecDrain: the worker on a queue nobody inserts into.  Uploads fail at  *)
(* most MaxDrainFailures times; the connection comes and goes.             *)
(***************************************************************************)
DrainFiles == 1..NDrainFiles

InitDrain ==
    /\ \E dir \in SUBSET DrainFiles : \E led \in SUBSET dir :
           Constructed(WebMaxImages, dir,
                       IF led = {} THEN NoFile ELSE status_document(led))
    /\ ObserversIdle
    /\ GpioOut /\ CaptureOut /\ ThreadsOut
    /\ worker_at = "check" /\ snapshots = <<>>

NextDrain ==
    \/ WorkerIteration(FALSE, <<>>)
    \/ WorkerIteration(TRUE, DrainAnswers(0, "none"))
    \/ \E k \in 1..BatchSize, kind \in Outcomes \ {"location"} :
           /\ k <= PendingCount
           /\ system_status.failed_uploads < MaxDrainFailures
           /\ WorkerIteration(TRUE, DrainAnswers(k, kind))
    \/ WorkerSleeps

\* the thread is scheduled, and a sleep returns
SpecDrain == InitDrain /\ [][NextDrain]_vars /\ WF_vars(NextDrain)

(***************************************************************************)
(* SpecOverlap: the three places that call the uploader, one uploader call *)
(* at a time: the worker's cycle, a force-upload request and a capture     *)
(* handler run in threads of their own and take no lock.                   *)
(***************************************************************************)
OverlapFiles == 1..NOverlapFiles

\* the file the capture handler stores
CapturedFile == NOverlapFiles + 1

Engines == {"worker", "force", "capture"}

Idle == [at |-> "idle", rest |-> <<>>]

InLoopOver(entries) == [at |-> "loop", rest |-> entries]

OverlapOnly ==
    UNCHANGED <<gpio_vars, loop_vars, dashboard_vars, capture_vars, thread_vars,
                worker_at, insert_log, persisted>>

\* upload_worker from the connectivity check to the slice
\* images_to_upload[:5]
WorkerBegins ==
    /\ OverlapOnly
    /\ running
    /\ snapshots["worker"] = Idle
    /\ system_status' = [system_status EXCEPT !.online = TRUE,
                                              !.last_check = "check"]
    /\ snapshots' = [snapshots EXCEPT !["worker"] =
                         InLoopOver(batch_of(get_upload_queue(images, uploaded_images)))]
    /\ last_op' = Op("upload_worker", 0, TRUE)
    /\ UNCHANGED <<running, max_images, images, uploaded_images,
                   upload_status_file, disk, upload_log>>

\* force_upload up to upload_queue = storage_manager.get_upload_queue()
ForceBegins ==
    /\ OverlapOnly
    /\ running
    /\ snapshots["force"] = Idle
    /\ snapshots' = [snapshots EXCEPT !["force"] =
                         InLoopOver(get_upload_queue(images, uploaded_images))]
    /\ last_op' = Op("force_upload", 0, TRUE)
    /\ UNCHANGED <<program_vars, upload_log>>

\* a capture handler up to storage_manager.add_image(filepath): the capture
\* has written the file
CaptureStores ==
    /\ OverlapOnly
    /\ snapshots["capture"] = Idle
    /\ CapturedFile \notin disk
    /\ write_file(CapturedFile)
    /\ snapshots' = [snapshots EXCEPT !["capture"] = [at |-> "add_image", rest |-> <<>>]]
    /\ last_op' = Op("capture", 0, TRUE)
    /\ UNCHANGED upload_log

CaptureAdds ==
    /\ OverlapOnly
    /\ snapshots["capture"].at = "add_image"
    /\ add_image(CapturedFile)
    /\ snapshots' = [snapshots EXCEPT !["capture"] =
                         InLoopOver(<<image_info(path_join(StorageDir, CapturedFile))>>)]
    /\ last_op' = Op("add_image", 0, TRUE)
    /\ UNCHANGED upload_log

\* the entries a loop still tries once an upload has failed
rest_of(engine, rest) ==
    IF engine = "worker" THEN rest_after_failure(rest)
    ELSE IF engine = "force" THEN force_rest_after_failure(rest)
    ELSE rest

\* one uploader.upload(...) of a loop, with what follows it: the counter,
\* mark_as_uploaded on a location (the capture handlers count nothing)
UploadStep(engine, answer) ==
    /\ OverlapOnly
    /\ running
    /\ snapshots[engine].at = "loop"
    /\ snapshots[engine].rest # <<>>
    /\ Len(upload_log) < MaxOverlapCount
    /\ LET rest == snapshots[engine].rest
           f == Head(rest).filename
           n == IF engine = "capture" THEN 0 ELSE 1
           st == IF answer = "location"
                 THEN loop_mark([LoopStart EXCEPT
                                    !.status.successful_uploads = @ + n], f)
                 ELSE [LoopStart EXCEPT !.status.failed_uploads = @ + n]
       IN  /\ uploaded_images' = st.uploaded
           /\ upload_status_file' = st.file
           /\ system_status' = st.status
           /\ upload_log' = Append(upload_log, <<f, answer>>)
           /\ snapshots' = [snapshots EXCEPT ![engine].rest =
                                IF answer = "location" THEN Tail(rest)
                                ELSE rest_of(engine, Tail(rest))]
    /\ last_op' = Op("upload", 0, answer = "location")
    /\ UNCHANGED <<running, max_images, images, disk>>

\* the for loop is over: the worker refreshes pending_uploads and sleeps,
\* the handlers return
EngineEnds(engine) ==
    /\ OverlapOnly
    /\ running
    /\ snapshots[engine] = InLoopOver(<<>>)
    /\ snapshots' = [snapshots EXCEPT ![engine] = Idle]
    /\ system_status' =
           IF engine = "worker"
           THEN [system_status EXCEPT
                    !.pending_uploads = Len(get_upload_queue(images, uploaded_images))]
           ELSE system_status
    /\ last_op' = Op("returned", 0, TRUE)
    /\ UNCHANGED <<running, max_images, images, uploaded_images,
                   upload_status_file, disk, upload_log>>

InitOverlap ==
    /\ \E dir \in SUBSET OverlapFiles : \E led \in SUBSET dir :
           Constructed(WebMaxImages, dir,
                       IF led = {} THEN NoFile ELSE status_document(led))
    /\ ObserversIdle
    /\ GpioOut /\ CaptureOut /\ ThreadsOut
    /\ worker_at = "whole"
    /\ snapshots = [e \in Engines |-> Idle]

NextOverlap ==
    \/ WorkerBegins
    \/ ForceBegins
    \/ CaptureStores
    \/ CaptureAdds
    \/ \E engine \in Engines, answer \in Outcomes : UploadStep(engine, answer)
    \/ \E engine \in Engines : EngineEnds(engine)

SpecOverlap == InitOverlap /\ [][NextOverlap]_vars

(***************************************************************************)
(* SpecBatch: the worker's cycles on a directory that can hold more        *)
(* pending images than one batch.                                          *)
(***************************************************************************)
BatchFiles == 1..NBatchFiles

InitBatch ==
    /\ \E dir \in SUBSET BatchFiles : \E led \in SUBSET dir :
           Constructed(WebMaxImages, dir,
                       IF led = {} THEN NoFile ELSE status_document(led))
    /\ ObserversIdle /\ WorkerOut
    /\ GpioOut /\ CaptureOut /\ ThreadsOut

NextBatch ==
    \/ OfflineCycle /\ upload_log' = <<>>
    \/ \E k \in 0..BatchSize, kind \in Outcomes \ {"location"} :
           /\ k <= PendingCount
           /\ SyncBudget(MaxBatchCount)
           /\ DrainCycle(k, kind)
           /\ LogWorker(DrainAnswers(k, kind))

SpecBatch == InitBatch /\ [][NextBatch]_vars

(***************************************************************************)
(* The falling-edge detector of gpio_service.py: the service is built,     *)
(* callbacks are registered, monitoring is started and stopped, and the    *)
(* monitor thread makes its passes over the lines.                         *)
(***************************************************************************)
Levels == {"low", "high"}

Reads == [ChannelSet -> Levels \cup {"error"}]

RECURSIVE setup_gpio(_, _, _)
\* _setup_gpio over the channels chs: each line is set up and its level
\* stored; an exception ends the setup and clears gpio_available
setup_gpio(chs, reads, st) ==
    IF chs = <<>> THEN st
    ELSE LET ch == Head(chs)
         IN  IF reads[ch] = "error" THEN [st EXCEPT !.gpio_available = FALSE]
             ELSE setup_gpio(Tail(chs), reads,
                      [st EXCEPT !.pin_states[ch] = reads[ch],
                                 !.samples[ch] = Append(@, reads[ch])])

\* GPIOService.__init__ with GPIO_AVAILABLE and config.GPIO_ENABLED = enabled
GPIOService(enabled, reads) ==
    LET fresh == [gpio_available |-> enabled,
                  pin_states |-> [ch \in ChannelSet |-> "unset"],
                  samples |-> [ch \in ChannelSet |-> <<>>]]
        built == IF enabled THEN setup_gpio(Channels, reads, fresh) ELSE fresh
    IN  /\ gpio_available = built.gpio_available
        /\ pin_states = built.pin_states
        /\ samples = built.samples
        /\ monitoring = FALSE
        /\ callbacks = {}
        /\ fired = [ch \in ChannelSet |-> 0]

GpioOnly ==
    UNCHANGED <<program_vars, observer_vars, loop_vars, capture_vars, thread_vars,
                worker_vars>>

register_callback(camera_id) ==
    /\ callbacks' = IF camera_id \in ChannelSet
                    THEN callbacks \cup {camera_id}
                    ELSE callbacks
    /\ UNCHANGED <<gpio_available, monitoring, pin_states, fired, samples>>

\* a start that does not ask whether the lines are available
start_monitoring_unchecked ==
    /\ monitoring' = TRUE
    /\ UNCHANGED <<gpio_available, callbacks, pin_states, fired, samples>>

start_monitoring ==
    /\ monitoring' = IF ~gpio_available THEN monitoring ELSE TRUE
    /\ UNCHANGED <<gpio_available, callbacks, pin_states, fired, samples>>

stop_monitoring ==
    /\ monitoring' = FALSE
    /\ UNCHANGED <<gpio_available, callbacks, pin_states, fired, samples>>

\* one iteration of the while loop of _monitor_pins
monitor_pins(reads) ==
    /\ monitoring
    /\ LET after == monitor_pass(Channels, callbacks, reads,
                        [pin_states |-> pin_states, fired |-> fired,
                         samples |-> samples])
       IN  /\ pin_states' = after.pin_states
           /\ fired' = after.fired
           /\ samples' = after.samples
    /\ UNCHANGED <<gpio_available, monitoring, callbacks>>

\* get_pin_state: None when unavailable or for an unknown camera, else
\* whether the line reads low; read is what GPIO.input gives
get_pin_state(camera_id, read) ==
    IF ~gpio_available \/ camera_id \notin ChannelSet THEN "None"
    ELSE IF read = "error" THEN "raise"
    ELSE IF read = "low" THEN "True"
    ELSE "False"

\* is_gpio_available
is_gpio_available == gpio_available

\* toggle_gpio: 400 for an unknown camera and when is_gpio_available() is
\* false, else the flag of the camera is set
toggle_gpio(camera_id, enabled) ==
    gpio_status' = IF camera_id \in ChannelSet /\ is_gpio_available
                   THEN [gpio_status EXCEPT ![camera_id] = enabled]
                   ELSE gpio_status

RegisterCallback(camera_id) ==
    /\ GpioOnly
    /\ register_callback(camera_id)
    /\ gpio_reply' = Reply("register_callback", camera_id, "none")
    /\ UNCHANGED gpio_status

StartMonitoring ==
    /\ GpioOnly
    /\ start_monitoring
    /\ gpio_reply' = Reply("start_monitoring", "none", "none")
    /\ UNCHANGED gpio_status

StopMonitoring ==
    /\ GpioOnly
    /\ stop_monitoring
    /\ gpio_reply' = Reply("stop_monitoring", "none", "none")
    /\ UNCHANGED gpio_status

GetPinState(camera_id, read) ==
    /\ GpioOnly
    /\ gpio_reply' = Reply("get_pin_state", camera_id, get_pin_state(camera_id, read))
    /\ UNCHANGED <<gpio_vars, gpio_status>>

ToggleGpio(camera_id, enabled) ==
    /\ GpioOnly
    /\ toggle_gpio(camera_id, enabled)
    /\ gpio_reply' = Reply("toggle_gpio", camera_id,
                           IF camera_id \in ChannelSet /\ is_gpio_available
                           THEN "200" ELSE "400")
    /\ UNCHANGED gpio_vars

MonitorPins(reads) ==
    /\ GpioOnly
    /\ gpio_reply' = NoReply
    /\ UNCHANGED gpio_status
    /\ \A ch \in ChannelSet : Len(samples[ch]) < MaxSamples
    /\ monitor_pins(reads)

InitGpio ==
    /\ Constructed(WebMaxImages, {}, NoFile)
    /\ ObserversIdle /\ WorkerOut
    /\ CaptureOut /\ ThreadsOut
    /\ \E enabled \in BOOLEAN, reads \in Reads : GPIOService(enabled, reads)
    /\ monitor_threads = <<>> /\ stopper = "idle" /\ after_stop = "idle"
    /\ caught = <<>>
    /\ DashboardIdle

NextGpio ==
    \/ \E camera_id \in ChannelSet \cup {"camera_3"} : RegisterCallback(camera_id)
    \/ StartMonitoring
    \/ StopMonitoring
    \/ \E reads \in Reads : MonitorPins(reads)

SpecGpio == InitGpio /\ [][NextGpio]_vars

(***************************************************************************)
(* The edge detector with the dashboard's calls: the query of a line and   *)
(* the toggle of a channel's flag.                                         *)
(***************************************************************************)
NextDashboard ==
    \/ \E camera_id \in ChannelSet \cup {"camera_3"} : RegisterCallback(camera_id)
    \/ StartMonitoring
    \/ StopMonitoring
    \/ \E reads \in Reads :
           /\ \A ch \in ChannelSet : Len(samples[ch]) < MaxFlagSamples
           /\ MonitorPins(reads)
    \/ \E camera_id \in ChannelSet \cup {"camera_3"},
          read \in Levels \cup {"error"} : GetPinState(camera_id, read)
    \/ \E camera_id \in ChannelSet \cup {"camera_3"}, enabled \in BOOLEAN :
           ToggleGpio(camera_id, enabled)

SpecDashboard == InitGpio /\ [][NextDashboard]_vars

(***************************************************************************)
(* Captures: the callers of CameraService.capture_camera_N.  The monitor   *)
(* thread (gpio_camera_N_callback), a dashboard request (capture_image)    *)
(* and every connection of the trigger server (its own TriggerHandler and  *)
(* its own CameraService) each make the call from their own thread; a call *)
(* begins, the camera is read, and the call returns.                       *)
(***************************************************************************)
Monitor == <<"gpio_monitor", 0>>

Dashboard == <<"dashboard", 0>>

Connection(i) == <<"connection", i>>

Connections == {Connection(i) : i \in 1..NConnections}

Callers == {Monitor, Dashboard} \cup Connections

CaptureFiles == 1..NCaptureFiles

\* the call of capture_camera_1 / capture_camera_2 is entered: the service
\* is an opaque collaborator that takes the call from any thread
capture_camera(caller, camera) ==
    /\ capturing[caller] = "idle"
    /\ capturing' = [capturing EXCEPT ![caller] = camera]

\* the call returns to its caller
capture_returns(caller) ==
    /\ capturing[caller] # "idle"
    /\ capturing' = [capturing EXCEPT ![caller] = "idle"]

CaptureOnly ==
    UNCHANGED <<observer_vars, gpio_vars, loop_vars, dashboard_vars, thread_vars,
                worker_vars, chunk>>

\* gpio_camera_1_callback / gpio_camera_2_callback up to the capture call
GpioCallbackBegins(camera) ==
    /\ CaptureOnly
    /\ capture_camera(Monitor, camera)
    /\ UNCHANGED program_vars

\* capture_image up to the capture call; an unknown camera id is answered
\* with 400 and captures nothing
CaptureImageBegins(camera_id) ==
    /\ CaptureOnly
    /\ IF camera_id \in ChannelSet
       THEN capture_camera(Dashboard, camera_id)
       ELSE UNCHANGED capturing
    /\ UNCHANGED program_vars

\* _process_trigger up to the capture call, for a payload with the tokens found
ProcessTriggerBegins(conn, found) ==
    /\ CaptureOnly
    /\ capture_camera(conn, trigger_camera(found))
    /\ UNCHANGED program_vars

\* the rest of gpio_camera_N_callback and of capture_image: a capture that
\* gives "local:<file>" is stored and uploaded, one that gives nothing is not
StoreCaptured(caller, f, captured, answer) ==
    /\ CaptureOnly
    /\ caller \in {Monitor, Dashboard}
    /\ capture_returns(caller)
    /\ IF captured
       THEN /\ Len(images) < MaxCaptured
            /\ store_and_upload(f, answer)
       ELSE UNCHANGED program_vars

\* the rest of _process_trigger: the location is only tested for None; a
\* capture that succeeded has left its file f in the storage directory
ProcessTriggerEnds(conn, f, captured) ==
    /\ CaptureOnly
    /\ conn \in Connections
    /\ capture_returns(conn)
    /\ IF captured /\ f \notin disk
       THEN write_file(f)
       ELSE UNCHANGED program_vars

InitCapture ==
    /\ Constructed(WebMaxImages, {}, NoFile)
    /\ ObserversIdle /\ WorkerOut
    /\ GpioOut /\ ThreadsOut
    /\ capturing = [c \in Callers |-> "idle"]
    /\ chunk = <<>>

NextCapture ==
    \/ \E camera \in ChannelSet : GpioCallbackBegins(camera)
    \/ \E camera_id \in ChannelSet \cup {"camera_3"} : CaptureImageBegins(camera_id)
    \/ \E conn \in Connections, found \in SUBSET Tokens :
           ProcessTriggerBegins(conn, found)
    \/ \E caller \in Callers, f \in CaptureFiles, captured \in BOOLEAN,
          answer \in Outcomes : StoreCaptured(caller, f, captured, answer)
    \/ \E conn \in Connections, f \in CaptureFiles, captured \in BOOLEAN :
           ProcessTriggerEnds(conn, f, captured)

SpecCapture == InitCapture /\ [][NextCapture]_vars

(***************************************************************************)
(* Threads inside add_image at the same time (the monitor thread and the   *)
(* request threads of the dashboard share one LocalStorageManager, which   *)
(* takes no lock).  Each thread stores a file of its own; a step is what   *)
(* the interpreter does without releasing its lock: the stat of the file,  *)
(* list.insert, the test of the loop of _manage_queue_size, list.pop, the  *)
(* move of the popped file.                                                *)
(***************************************************************************)
Threads == 1..NThreads

\* the files loaded at start are older than the files the threads store
PreloadedFiles == 1..NPreloaded

ThreadFile(t) == NPreloaded + t

At(place, oldest) == [at |-> place, oldest |-> oldest]

ThreadsOnly ==
    UNCHANGED <<observer_vars, gpio_vars, loop_vars, dashboard_vars, capture_vars,
                worker_vars, start_len>>

QueueFixed ==
    UNCHANGED <<running, max_images, uploaded_images, upload_status_file,
                system_status>>

\* the capture service has written the file the thread is about to store
CaptureWrites(t) ==
    /\ ThreadsOnly /\ QueueFixed
    /\ pc[t] = At("capture", 0)
    /\ disk' = disk \cup {ThreadFile(t)}
    /\ pc' = [pc EXCEPT ![t] = At("add_image", 0)]
    /\ UNCHANGED images

\* os.path.exists and os.stat: without the file add_image returns False
AddImageStat(t) ==
    /\ ThreadsOnly /\ QueueFixed
    /\ pc[t] = At("add_image", 0)
    /\ pc' = [pc EXCEPT ![t] = IF ThreadFile(t) \in disk
                                THEN At("insert", 0)
                                ELSE At("returned False", 0)]
    /\ UNCHANGED <<images, disk>>

\* self.images.insert(0, image_info)
AddImageInsert(t) ==
    /\ ThreadsOnly /\ QueueFixed
    /\ pc[t] = At("insert", 0)
    /\ images' = insert_head(images, image_info(path_join(StorageDir, ThreadFile(t))))
    /\ pc' = [pc EXCEPT ![t] = At("while", 0)]
    /\ UNCHANGED disk

\* while len(self.images) > self.max_images
ManageQueueTest(t) ==
    /\ ThreadsOnly /\ QueueFixed
    /\ pc[t] = At("while", 0)
    /\ pc' = [pc EXCEPT ![t] = IF over_capacity(images, max_images)
                                THEN At("pop", 0)
                                ELSE At("returned True", 0)]
    /\ UNCHANGED <<images, disk>>

\* oldest_image = self.images.pop(); on an empty list it raises IndexError,
\* which add_image catches and answers with False
ManageQueuePop(t) ==
    /\ ThreadsOnly /\ QueueFixed
    /\ pc[t] = At("pop", 0)
    /\ IF images = <<>>
       THEN /\ pc' = [pc EXCEPT ![t] = At("returned False", 0)]
            /\ UNCHANGED images
       ELSE /\ pc' = [pc EXCEPT ![t] = At("move", images[Len(images)].filename)]
            /\ images' = pop_last(images)
    /\ UNCHANGED disk

\* shutil.move of the popped file to backup/ (os.remove when that fails)
ManageQueueMove(t) ==
    /\ ThreadsOnly /\ QueueFixed
    /\ pc[t].at = "move"
    /\ disk' = disk \ {pc[t].oldest}
    /\ pc' = [pc EXCEPT ![t] = At("while", 0)]
    /\ UNCHANGED images

InitThreads ==
    /\ \E cap \in 1..MaxConcCap, dir \in SUBSET PreloadedFiles :
           Constructed(cap, dir, NoFile)
    /\ ObserversIdle /\ WorkerOut
    /\ GpioOut /\ CaptureOut
    /\ pc = [t \in Threads |-> At("capture", 0)]
    /\ start_len = Len(images)

NextThreads ==
    \/ \E t \in Threads : CaptureWrites(t)
    \/ \E t \in Threads : AddImageStat(t)
    \/ \E t \in Threads : AddImageInsert(t)
    \/ \E t \in Threads : ManageQueueTest(t)
    \/ \E t \in Threads : ManageQueuePop(t)
    \/ \E t \in Threads : ManageQueueMove(t)

SpecThreads == InitThreads /\ [][NextThreads]_vars

(***************************************************************************)
(* One connection of the trigger server: TriggerHandler.handle receives a  *)
(* chunk, strips it and has _process_trigger capture the camera it names.  *)
(* A payload is a concatenation of pieces of text.                         *)
(***************************************************************************)
Pieces ==
    <<<<"h", "e", "l", "l", "o", " ", "w", "o", "r", "l", "d">>,
      <<"t", "r", "i", "g", "g", "e", "r", " ">>,
      <<" ", "n", "o", "w">>,
      <<"c", "a", "m", "e", "r", "a", "_", "1">>,
      <<"C", "A", "M", "E", "R", "A", "_", "2">>,
      <<"c", "a", "m", "e", "r", "a", "_", "2">>,
      <<"R", "f", "i", "d", "_", "1">>,
      <<"r", "f", "i", "d", "_", "2">>,
      <<" ">>>>

PieceIds == 1..Len(Pieces)

Chunks == UNION {[1..n -> PieceIds] : n \in 1..MaxPieces}

RECURSIVE concat(_)
\* the text of a chunk
concat(ids) ==
    IF ids = <<>> THEN <<>> ELSE Pieces[Head(ids)] \o concat(Tail(ids))

TriggerOnly ==
    UNCHANGED <<program_vars, observer_vars, gpio_vars, loop_vars, dashboard_vars,
                thread_vars, worker_vars>>

\* handle: a chunk arrives while the handler waits in recv
HandleChunk(conn, ids) ==
    /\ TriggerOnly
    /\ chunk' = ids
    /\ capture_camera(conn, process_trigger(strip(concat(ids))))

\* the capture returns and handle is back in recv, the payload done with
HandleNext(conn) ==
    /\ TriggerOnly
    /\ capture_returns(conn)
    /\ chunk' = <<>>

\* recv gives nothing: the peer has closed, handle ends; the next
\* connection gets a handler of its own
HandleClosed(conn) ==
    /\ TriggerOnly
    /\ capturing[conn] = "idle"
    /\ UNCHANGED capture_vars

InitTrigger ==
    /\ Constructed(WebMaxImages, {}, NoFile)
    /\ ObserversIdle /\ WorkerOut
    /\ GpioOut /\ ThreadsOut
    /\ capturing = [c \in {Connection(1)} |-> "idle"]
    /\ chunk = <<>>

NextTrigger ==
    \/ /\ capturing[Connection(1)] = "idle"
       /\ \E ids \in Chunks : HandleChunk(Connection(1), ids)
    \/ HandleNext(Connection(1))
    \/ HandleClosed(Connection(1))

SpecTrigger == InitTrigger /\ [][NextTrigger]_vars

(***************************************************************************)
(* The monitor threads of gpio_service.py, step by step.  start_monitoring *)
(* starts a thread on _monitor_pins; the thread tests self.monitoring,     *)
(* makes a pass over the lines, one line at a time, and calls a callback   *)
(* from inside the pass; stop_monitoring clears self.monitoring and joins  *)
(* the latest thread for at most a second.  The calls of start_monitoring  *)
(* and stop_monitoring come one after the other.  (The logs samples and    *)
(* fired are kept by SpecGpio; here after_stop is the log.)                *)
(***************************************************************************)
InLoop(place, i, cur) == [at |-> place, i |-> i, cur |-> cur]

AtWhile == InLoop("while", 0, "none")

Exited == InLoop("exited", 0, "none")

\* where a thread goes on once it is done with the i-th line of its pass:
\* to the next line, or past time.sleep(0.01) to the test of the loop
next_line(i) == IF i < Len(Channels) THEN InLoop("for", i + 1, "none") ELSE AtWhile

\* what the log shows once the loop has done what (a sample, a call)
noted(what) == IF after_stop = "idle" THEN "idle" ELSE what

RECURSIVE SumOf(_)
SumOf(counts) == IF counts = <<>> THEN 0 ELSE Head(counts) + SumOf(Tail(counts))

\* the monitor threads may still be given an exception to catch
MayRaise == SumOf(caught) < MaxCaught

\* logger.error in an except clause of thread t
logs_error(t) == caught' = [caught EXCEPT ![t] = @ + 1]

\* a loop without the outer try: the exception ends the thread
read_error_uncaught == Exited

\* where GPIO.input raising leaves the thread: the except clause of the
\* loop logs, sleeps 0.1 s, and the thread is back at the test of the loop
read_error_caught == AtWhile

LoopOnly ==
    UNCHANGED <<program_vars, observer_vars, capture_vars, thread_vars,
                worker_vars, dashboard_vars, fired, samples>>

\* register_callback
LoopRegister(camera_id) ==
    /\ LoopOnly
    /\ callbacks' = IF camera_id \in ChannelSet
                    THEN callbacks \cup {camera_id}
                    ELSE callbacks
    /\ UNCHANGED <<gpio_available, monitoring, pin_states, loop_vars>>

\* start_monitoring: a refusal when unavailable or already monitoring,
\* otherwise a new thread, which becomes self.monitor_thread
LoopStarts ==
    /\ LoopOnly
    /\ stopper = "idle"
    /\ IF ~gpio_available \/ monitoring
       THEN UNCHANGED <<monitoring, monitor_threads, after_stop, caught>>
       ELSE /\ Len(monitor_threads) < MaxLoops
            /\ monitoring' = TRUE
            /\ monitor_threads' = Append(monitor_threads, AtWhile)
            /\ caught' = Append(caught, 0)
            /\ after_stop' = "idle"
    /\ UNCHANGED <<gpio_available, callbacks, pin_states, stopper>>

\* stop_monitoring up to the join: nothing to do when not monitoring
StopBegins ==
    /\ LoopOnly
    /\ stopper = "idle"
    /\ IF ~monitoring
       THEN UNCHANGED <<monitoring, stopper, after_stop>>
       ELSE /\ monitoring' = FALSE
            /\ stopper' = "join"
            /\ UNCHANGED after_stop
    /\ UNCHANGED <<gpio_available, callbacks, pin_states, monitor_threads, caught>>

\* self.monitor_thread.join(timeout=1) is over: the thread has ended, or
\* the second has passed with the thread inside a callback
join_is_over(thread) == thread.at \in {"exited", "callback"}

\* stop_monitoring from the join to its return
StopReturns ==
    /\ LoopOnly
    /\ stopper = "join"
    /\ join_is_over(monitor_threads[Len(monitor_threads)])
    /\ stopper' = "idle"
    /\ after_stop' = "stopped"
    /\ UNCHANGED <<gpio_available, monitoring, callbacks, pin_states,
                   monitor_threads, caught>>

\* while self.monitoring
LoopTest(t) ==
    /\ LoopOnly
    /\ monitor_threads[t] = AtWhile
    /\ monitor_threads' =
           [monitor_threads EXCEPT ![t] = IF monitoring
                                          THEN InLoop("for", 1, "none")
                                          ELSE Exited]
    /\ UNCHANGED <<gpio_available, monitoring, callbacks, pin_states,
                   stopper, after_stop, caught>>

\* the body of the for loop for the i-th line, up to the call of the
\* callback: read is what GPIO.input gives
LoopLine(t, read) ==
    /\ LoopOnly
    /\ monitor_threads[t].at = "for"
    /\ LET i == monitor_threads[t].i
           ch == Channels[i]
           edge == falling_edge(pin_state_get(pin_states, ch), read)
       IN  IF ch \notin callbacks
           THEN /\ monitor_threads' = [monitor_threads EXCEPT ![t] = next_line(i)]
                /\ UNCHANGED <<pin_states, after_stop, caught>>
           ELSE IF read = "error"
           THEN /\ MayRaise
                /\ monitor_threads' =
                       [monitor_threads EXCEPT ![t] = read_error_caught]
                /\ logs_error(t)
                /\ UNCHANGED <<pin_states, after_stop>>
           ELSE IF edge
           THEN /\ monitor_threads' =
                       [monitor_threads EXCEPT ![t] = InLoop("callback", i, read)]
                /\ after_stop' = noted("fired")
                /\ UNCHANGED <<pin_states, caught>>
           ELSE /\ monitor_threads' = [monitor_threads EXCEPT ![t] = next_line(i)]
                /\ pin_states' = [pin_states EXCEPT ![ch] = read]
                /\ after_stop' = IF after_stop = "fired" THEN "fired"
                                 ELSE noted("sampled")
                /\ UNCHANGED caught
    /\ UNCHANGED <<gpio_available, monitoring, callbacks, stopper>>

\* the callback returns, or raises (the except clause around the call logs
\* the error), and the sample is stored
LoopCallbackReturns(t, raised) ==
    /\ LoopOnly
    /\ monitor_threads[t].at = "callback"
    /\ IF raised THEN MayRaise /\ logs_error(t) ELSE UNCHANGED caught
    /\ pin_states' = [pin_states EXCEPT ![Channels[monitor_threads[t].i]] =
                                            monitor_threads[t].cur]
    /\ monitor_threads' =
           [monitor_threads EXCEPT ![t] = next_line(monitor_threads[t].i)]
    /\ UNCHANGED <<gpio_available, monitoring, callbacks, stopper, after_stop>>

InitMonitor ==
    /\ Constructed(WebMaxImages, {}, NoFile)
    /\ ObserversIdle /\ WorkerOut
    /\ CaptureOut /\ ThreadsOut
    /\ \E reads \in [ChannelSet -> Levels] : GPIOService(TRUE, reads)
    /\ monitor_threads = <<>> /\ stopper = "idle" /\ after_stop = "idle"
    /\ caught = <<>>
    /\ DashboardIdle

NextMonitor ==
    \/ \E camera_id \in ChannelSet \cup {"camera_3"} : LoopRegister(camera_id)
    \/ LoopStarts
    \/ StopBegins
    \/ StopReturns
    \/ \E t \in DOMAIN monitor_threads : LoopTest(t)
    \/ \E t \in DOMAIN monitor_threads, read \in Levels \cup {"error"} :
           LoopLine(t, read)
    \/ \E t \in DOMAIN monitor_threads, raised \in BOOLEAN :
           LoopCallbackReturns(t, raised)

SpecMonitor == InitMonitor /\ [][NextMonitor]_vars

(***************************************************************************)
(* Claims.                                                                 *)
(***************************************************************************)
\* the positions of a log whose upload failed
Failures(log) == {i \in 1..Len(log) : log[i][2] # "location"}

\* the names a log shows uploaded
Uploaded(log) == {log[i][1] : i \in {j \in 1..Len(log) : log[j][2] = "location"}}

\* C1: after more than max_images successful add_image calls in a row the
\* queue holds exactly max_images entries, and they are the max_images most
\* recently inserted ones, newest first.
C1_CapacityInvariant ==
    Len(insert_log) > max_images =>
        /\ Len(images) = max_images
        /\ images = Reverse(LastN(insert_log, max_images))

C1_Witness ==
    /\ Len(insert_log) > max_images
    /\ max_images >= 2
    /\ Len(images) = max_images
    /\ last_op.op = "add_image" /\ last_op.arg # 0

\* C2: in a cycle of the worker whose k-th upload fails, the uploader is
\* called for the first k pending entries and no more, the names of the k-1
\* entries before the failing one are what the ledger gains,
\* failed_uploads grows by one; with 5 pending entries and k = 2 one entry
\* is marked and 4 stay pending.
C2_DrainAbortOnFailure ==
    [][(last_op'.op = "upload_worker" /\ last_op'.ok /\ Failures(upload_log') # {}) =>
        LET pending == get_upload_queue(images, uploaded_images)
            k == CHOOSE i \in Failures(upload_log') :
                     \A j \in Failures(upload_log') : i <= j
        IN  /\ Len(upload_log') = k
            /\ \A i \in 1..k : upload_log'[i][1] = pending[i].filename
            /\ uploaded_images' =
                   uploaded_images \cup {pending[i].filename : i \in 1..(k - 1)}
            /\ system_status'.failed_uploads = system_status.failed_uploads + 1
            /\ system_status'.successful_uploads =
                   system_status.successful_uploads + (k - 1)
            /\ (Len(pending) = 5 /\ k = 2) =>
                   /\ Cardinality(uploaded_images' \ uploaded_images) = 1
                   /\ Len(get_upload_queue(images', uploaded_images')) = 4
    ]_vars

C2_Witness ==
    /\ last_op.op = "upload_worker" /\ last_op.ok
    /\ Len(upload_log) = 2
    /\ upload_log[1][2] = "location"
    /\ upload_log[2][2] = "raise"
    /\ Len(images) = 5
    /\ PendingCount = 4
    /\ system_status.failed_uploads = 1

C3_LedgerMonotonic == [][uploaded_images \subseteq uploaded_images']_vars

C3_Witness ==
    /\ last_op.op = "add_image"
    /\ last_op.arg # 0
    /\ is_uploaded(uploaded_images, last_op.arg)
    /\ last_op.arg \notin Filenames(images)

\* C5 as stated: the ledger found at the next start holds every name that
\* was written to the status file before the process died.
C5_AtomicPersist ==
    last_op.op = "restart" => persisted \subseteq uploaded_images

\* the status file is the one the last completed save left
StatusFileIntact ==
    \/ upload_status_file = NoFile /\ persisted = {}
    \/ upload_status_file = status_document(persisted)

\* C8: after a restart on the storage directory and the status file that
\* holds the persisted set S, the pending entries are exactly the files of
\* the directory that are not in S.
C8_ReloadConsistency ==
    (last_op.op = "restart" /\ StatusFileIntact) =>
        LET pending == Filenames(get_upload_queue(images, uploaded_images))
        IN  /\ pending \cap persisted = {}
            /\ pending = disk \ persisted

C8_Witness ==
    /\ last_op.op = "restart"
    /\ StatusFileIntact
    /\ Cardinality(persisted) >= 2
    /\ persisted \cap disk # {}
    /\ disk \ persisted # {}

\* C9: mark_as_uploaded(f) for a name that is already in the ledger changes
\* neither the ledger, nor its size, nor the status file, nor the pending
\* entries.
C9_MarkIdempotent ==
    [][(last_op'.op = "mark_as_uploaded"
            /\ is_uploaded(uploaded_images, last_op'.arg)) =>
        /\ uploaded_images' = uploaded_images
        /\ get_uploaded_count(uploaded_images') = get_uploaded_count(uploaded_images)
        /\ upload_status_file' = upload_status_file
        /\ get_upload_queue(images', uploaded_images') =
               get_upload_queue(images, uploaded_images)
    ]_vars

C9_Witness ==
    /\ last_op.op = "mark_as_uploaded"
    /\ ~last_op.ok
    /\ is_uploaded(uploaded_images, last_op.arg)
    /\ upload_status_file = status_document(uploaded_images)

\* the high-then-low pairs among consecutive samples of one line
FallingEdges(levels) ==
    Cardinality({i \in 1..(Len(levels) - 1) : levels[i] = "high" /\ levels[i + 1] = "low"})

\* C4: a channel's handler has been called exactly once for every pair of
\* consecutive samples of its line that read high and then low: never on a
\* rising edge, never again while the line stays low.
C4_EdgeOnlyTrigger ==
    \A ch \in ChannelSet : fired[ch] = FallingEdges(samples[ch])

\* C4 witness: camera_1 sampled high, low, high, low has fired twice, and
\* camera_2 sampled high and then low three times has fired once.
C4_Witness ==
    /\ samples["camera_1"] = <<"high", "low", "high", "low">> /\ fired["camera_1"] = 2
    /\ samples["camera_2"] = <<"high", "low", "low", "low">> /\ fired["camera_2"] = 1

\* C6: no two callers are inside a capture of the same camera at the same
\* moment.  The code violates it: every caller enters the capture call
\* without taking a lock, and each connection has a capture service of its own.
C6_PerChannelSerialization ==
    \A c1, c2 \in DOMAIN capturing :
        (c1 # c2 /\ capturing[c1] # "idle") => capturing[c1] # capturing[c2]

\* every thread is back from add_image
AllReturned ==
    \A t \in DOMAIN pc : pc[t].at \in {"returned True", "returned False"}

\* the places of the entry of file f in the list
EntriesOf(f) ==
    {i \in 1..Len(images) : images[i] = image_info(path_join(StorageDir, f))}

\* C7: once NThreads threads have each stored a file of their own in a
\* queue that has room for all of them, every call has returned True and the
\* list has grown by exactly NThreads entries: every entry of the list is a
\* whole entry, and each thread's file has exactly one.
C7_ConcurrentInsertSafety ==
    (pc # <<>> /\ AllReturned /\ start_len + NThreads <= max_images) =>
        /\ \A t \in Threads : pc[t].at = "returned True"
        /\ Len(images) = start_len + NThreads
        /\ \A t \in Threads : Cardinality(EntriesOf(ThreadFile(t))) = 1
        /\ \A i \in 1..Len(images) : i \in EntriesOf(images[i].filename)

\* C7 witness: NThreads threads have returned from storing into an empty
\* queue of capacity NThreads, and the list has NThreads entries.
C7_Witness ==
    /\ pc # <<>> /\ AllReturned
    /\ start_len = 0 /\ max_images = NThreads
    /\ Len(images) = NThreads

\* the pieces that carry a token of camera_1, and of camera_2
Channel1Pieces == {4, 7}

Channel2Pieces == {5, 6, 8}

HasPiece(ids, S) == \E i \in 1..Len(ids) : ids[i] \in S

\* the camera a handler of the trigger server is capturing
Dispatched == capturing[Connection(1)]

\* C11 as stated: every payload with a camera_2 token is dispatched to
\* camera_2.  It fails on a payload that also has a camera_1 token.
C11_Channel2TokenWins ==
    (chunk # <<>> /\ Dispatched # "idle" /\ HasPiece(chunk, Channel2Pieces)) =>
        Dispatched = "camera_2"

\* C11 amended: a payload is dispatched to exactly one camera: to camera_1
\* when it has a camera_1 token (in any case of letters), otherwise to
\* camera_2 when it has a camera_2 token, otherwise to camera_1.
C11_CommandParsing ==
    (chunk # <<>> /\ Dispatched # "idle") =>
        Dispatched = IF HasPiece(chunk, Channel1Pieces) THEN "camera_1"
                     ELSE IF HasPiece(chunk, Channel2Pieces) THEN "camera_2"
                     ELSE "camera_1"

\* C11 witness: "trigger CAMERA_2 now" is being captured on camera_2.
C11_Witness ==
    chunk = <<2, 5, 3>> /\ Dispatched = "camera_2"

\* C12: a cycle of the upload worker and a force-upload leave the queue as
\* it is, entry by entry and in its order, and the files of the directory
\* with it, whatever the uploader answers.
C12_EngineKeepsQueue ==
    [][last_op'.op \in {"upload_worker", "force_upload"} =>
           /\ images' = images
           /\ disk' = disk
           /\ max_images' = max_images]_vars

\* C12 witness: a worker cycle has uploaded one entry and failed on the
\* next, and the queue still holds both.
C12_Witness ==
    /\ last_op.op = "upload_worker"
    /\ Len(upload_log) = 2
    /\ upload_log[1][2] = "location" /\ upload_log[2][2] # "location"
    /\ {upload_log[1][1], upload_log[2][1]} \subseteq Filenames(images)

\* C13: no two entries of the queue carry the same filename.  The code
\* violates it: add_image inserts without looking for the name in the list.
C13_FilenameUnique ==
    \A i, j \in 1..Len(images) :
        images[i].filename = images[j].filename => i = j

\* C14: the queue is sorted by creation time, newest first.  The code
\* violates it: add_image puts the entry at the head whatever its time.
C14_NewestFirst ==
    \A i, j \in 1..Len(images) :
        i < j => images[i].created >= images[j].created

\* C15: once stop_monitoring has returned, and until monitoring is started
\* again, no line is sampled and no callback is called.  The code violates
\* it: the join gives up after a second, and a thread that was inside a
\* callback goes on with its pass.
C15_StoppedLoopIsSilent == after_stop \notin {"sampled", "fired"}

\* the threads that are inside a pass over the lines
Polling == {t \in DOMAIN monitor_threads : monitor_threads[t].at = "for"}

\* C16: at most one thread is polling the lines at any time.  The code
\* violates it: after a join that timed out, start_monitoring starts a
\* second thread while the first is still to come back from its callback.
C16_SinglePollLoop == Cardinality(Polling) <= 1

\* C17: while the dashboard's flag of a channel is off, the channel's
\* callback is not called.  The code violates it: toggle_gpio only writes
\* gpio_status, which the monitor loop and the callbacks never read.
C17_ToggleGatesDispatch ==
    [][\A ch \in ChannelSet :
           (~gpio_status[ch] /\ ~gpio_status'[ch]) => fired'[ch] = fired[ch]]_vars

\* C18: when the lines are unavailable, register_callback still registers
\* a valid channel, start_monitoring starts no monitoring, no callback has
\* been called, and get_pin_state answers None.
C18_UnavailableMode ==
    ~gpio_available =>
        /\ ~is_gpio_available
        /\ ~monitoring
        /\ \A ch \in ChannelSet : fired[ch] = 0
        /\ (gpio_reply.op = "register_callback" /\ gpio_reply.arg \in ChannelSet)
               => gpio_reply.arg \in callbacks
        /\ gpio_reply.op = "get_pin_state" => gpio_reply.answer = "None"

\* C18 witness: unavailable, both callbacks registered, and monitoring
\* stays off after a call of start_monitoring.
C18_Witness ==
    /\ ~gpio_available
    /\ callbacks = ChannelSet
    /\ gpio_reply.op = "start_monitoring"
    /\ ~monitoring

\* C19: no queue of capacity zero or less accepts an insert (there is none:
\* its construction fails).  The code violates it: __init__ takes any
\* max_images, and add_image on a queue of capacity 0 returns True.
C19_NoInsertWithoutCapacity ==
    ~(max_images <= 0 /\ last_op.op = "add_image" /\ last_op.ok)

\* the counters of the sync engine in system_status
SyncCounters(status) ==
    <<status.pending_uploads, status.successful_uploads, status.failed_uploads,
      status.online, status.last_check>>

C21_OldestFirstDrain ==
    last_op.op = "upload_worker" =>
        \A i, j \in 1..Len(upload_log) :
            i < j => upload_log[i][1] < upload_log[j][1]

\* the filenames of the entries that are not in the ledger, in queue order
PendingNames ==
    LET idx == {i \in 1..Len(images) : images[i].filename \notin uploaded_images}
        nth[n \in 0..Len(images)] ==
            IF n = 0 THEN 0
            ELSE CHOOSE i \in idx :
                     Cardinality({j \in idx : j <= i}) = n
    IN  [n \in 1..Cardinality(idx) |-> images[nth[n]].filename]

C23_LoopSurvives ==
    (worker_at \notin {"check", "whole"}) ~> (worker_at = "check")

\* C23 witness: the worker is back at the connectivity check after the
\* sleep that follows an exception raised once the batch had failed.
C23_Witness ==
    /\ worker_at = "check"
    /\ last_op = Op("time.sleep", 30, TRUE)
    /\ system_status.failed_uploads > 0

\* C24: a step in which a monitor thread catches an exception (of a line
\* read or of a callback) leaves the monitoring flag as it is and the
\* thread inside its loop; and once an exception has been caught, a line
\* still goes from high to low in pin_states only through a call of its
\* channel's callback.
C24_LoopToleratesErrors ==
    [][/\ \A t \in DOMAIN caught :
              caught'[t] > caught[t] =>
                  /\ monitoring' = monitoring
                  /\ monitor_threads'[t].at \in {"while", "for"}
       /\ \A i \in 1..Len(Channels) :
              (/\ SumOf(caught) > 0
               /\ pin_states[Channels[i]] = "high"
               /\ pin_states'[Channels[i]] = "low")
              => \E t \in DOMAIN monitor_threads :
                     /\ monitor_threads[t].at = "callback"
                     /\ monitor_threads[t].i = i
                     /\ monitor_threads'[t] = next_line(i)]_vars

\* C24 witness: a thread that has caught an exception is, with monitoring
\* still set, inside the callback of a falling edge it detected afterwards.
C24_Witness ==
    /\ monitoring
    /\ \E t \in DOMAIN monitor_threads :
           /\ caught[t] > 0
           /\ monitor_threads[t].at = "callback"
           /\ monitor_threads[t].cur = "low"

\* C25: an add_image of a file that is not in the storage directory
\* returns False and leaves the queue, the ledger and the status file as
\* they were.
C25_InsertOfMissingFile ==
    [][\A f \in LedgerFiles :
           (f \notin disk /\ last_op'.op = "add_image" /\ Insert(f))
           => /\ ~last_op'.ok
              /\ images' = images
              /\ uploaded_images' = uploaded_images
              /\ upload_status_file' = upload_status_file
              /\ disk' = disk]_vars

\* C25 witness: an add_image has returned False on a queue that holds an
\* entry and a ledger that holds a name.
C25_Witness ==
    /\ last_op = Op("add_image", 0, FALSE)
    /\ images # <<>>
    /\ uploaded_images # {}

\* the entries of imgs that are not named f, in their order
Others(imgs, f) == SelectSeq(imgs, LAMBDA e : e.filename # f)

\* C26: remove_image(f) returns False and leaves the sequence as it is when
\* no entry is named f; otherwise it returns True, no entry named f is left,
\* the other entries keep their order and the ledger is unchanged.  It
\* fails: only the first entry named f is removed, and add_image lets two
\* entries have the same name.
C26_RemoveContract ==
    [][\A f \in Files :
           (last_op'.op = "remove_image" /\ Remove(f))
           => IF f \notin Filenames(images)
              THEN ~last_op'.ok /\ images' = images
              ELSE /\ last_op'.ok
                   /\ f \notin Filenames(images')
                   /\ images' = Others(images, f)
                   /\ uploaded_images' = uploaded_images]_vars

\* C27: a start that finds no status file, or one that cannot be parsed,
\* succeeds with an empty ledger, and every image file of the directory is
\* in the queue and pending.
C27_StartWithoutLedgerFile ==
    (last_op.op \in {"init", "restart"} /\ upload_status_file.kind # "json") =>
        /\ running
        /\ uploaded_images = {}
        /\ Filenames(images) = disk
        /\ get_upload_queue(images, uploaded_images) = images

\* C27 witness: the process has started again on a status file cut short,
\* with images in the directory.
C27_Witness ==
    /\ last_op.op = "restart"
    /\ upload_status_file = Truncated
    /\ images # <<>>

\* C28: a mark_as_uploaded of a name that no entry of the queue has puts
\* the name in the ledger and in the status file and leaves the queue as
\* it is.
C28_MarkWithoutEntry ==
    [][(last_op'.op = "mark_as_uploaded" /\ last_op'.arg \notin Filenames(images))
       => /\ running'
          /\ last_op'.arg \in uploaded_images'
          /\ last_op'.arg \in load_upload_status(upload_status_file')
          /\ images' = images]_vars

\* C28 witness: a name has been marked that no entry has and whose file is
\* not in the directory, while the queue holds another entry.
C28_Witness ==
    /\ last_op.op = "mark_as_uploaded"
    /\ last_op.ok
    /\ last_op.arg \notin Filenames(images)
    /\ last_op.arg \notin disk
    /\ last_op.arg \in uploaded_images
    /\ images # <<>>

\* caller c comes back in this step from a capture that gave the file f
ReturnsWith(c, f) ==
    \/ \E answer \in Outcomes : StoreCaptured(c, f, TRUE, answer)
    \/ ProcessTriggerEnds(c, f, TRUE)

\* C29: when a handler returns from a capture that succeeded, the file is
\* at the head of the queue, whether the handler is the GPIO callback, the
\* dashboard's capture request or the trigger server's.  It fails:
\* _process_trigger never calls add_image.
C29_CaptureIsQueued ==
    [][\A c \in Callers, f \in CaptureFiles :
           ReturnsWith(c, f) =>
               /\ images' # <<>>
               /\ images'[1].filename = f
               /\ Len(images') = Len(images) + 1]_vars

\* C30: a cycle of the worker in which the upload of the first pending
\* entry fails marks no entry as uploaded and counts no success, and the
\* same entry is the first pending one when the next cycle starts.
C30_HeadOfLineBlocking ==
    [][(/\ last_op'.op = "upload_worker" /\ last_op'.ok
        /\ upload_log' # <<>>
        /\ upload_log'[1][2] # "location")
       => /\ uploaded_images' = uploaded_images
          /\ system_status'.successful_uploads = system_status.successful_uploads
          /\ system_status'.pending_uploads = PendingCount
          /\ get_upload_queue(images', uploaded_images')[1].filename
                 = upload_log'[1][1]]_vars

\* C30 witness: two cycles have failed on the first pending entry, and
\* the entries behind it are still pending.
C30_Witness ==
    /\ last_op.op = "upload_worker" /\ last_op.ok
    /\ Len(upload_log) = 1
    /\ upload_log[1][2] # "location"
    /\ system_status.failed_uploads = 2
    /\ system_status.successful_uploads = 0
    /\ PendingCount >= 2

\* C31: if from some point on every connectivity check finds a connection
\* (uploads fail a bounded number of times and no entry is inserted), the
\* worker reaches a state where no entry is pending and pending_uploads
\* is 0.
C31_DrainLiveness ==
    <>[](system_status.online) =>
        <>(PendingCount = 0 /\ system_status.pending_uploads = 0)

\* C31 witness: a queue that started with more than one batch pending has
\* been drained, after an upload had failed.
C31_Witness ==
    /\ Len(images) > 5
    /\ system_status.successful_uploads > 5
    /\ system_status.failed_uploads > 0
    /\ PendingCount = 0
    /\ system_status.pending_uploads = 0

\* C32: once all the threads that stored a file into a queue that was at
\* capacity have returned, the queue holds exactly max_images entries.  It
\* fails: two threads pass the test of the while loop on the same length
\* and each pops an entry.
C32_NoOverEviction ==
    (pc # <<>> /\ AllReturned /\ start_len = max_images) =>
        Len(images) = max_images

\* the uploader calls on the file f that gave a location
SuccessfulUploadsOf(f) ==
    {i \in 1..Len(upload_log) : upload_log[i] = <<f, "location">>}

\* C33: no file is uploaded successfully more than once, and
\* successful_uploads is at most the number of names in the ledger.  It
\* fails: two loops that overlap hold the same pending entry in their
\* snapshots of the upload queue.
C33_AtMostOnceUpload ==
    /\ \A i \in 1..Len(upload_log) :
           Cardinality(SuccessfulUploadsOf(upload_log[i][1])) <= 1
    /\ system_status.successful_uploads <= Cardinality(uploaded_images)

\* C34: between the calls of the queue, the list holds at most max_images
\* entries, right after the scan of the directory at start and after a
\* rescan too.  It fails: _load_images takes every image file it finds.
C34_CapacityBoundWhenQuiescent ==
    running => Len(images) <= max_images

\* C35 as stated: an add_image never evicts an entry whose name is not in
\* the ledger, so every pending entry stays in the queue.  It fails: the
\* entry popped is the oldest one, pending or not.
C35_EvictionSparesPending ==
    [][last_op'.op = "add_image" =>
           \A name \in Filenames(images) \ uploaded_images :
               name \in Filenames(images')]_vars

\* C35 amended: an add_image of a file of the directory leaves the new
\* entry followed by the newest entries of the old queue, up to max_images
\* entries in all: the entries that go are the oldest ones, whether or not
\* their names are in the ledger, and the ledger is left as it is.
C35_EvictionTakesTheOldest ==
    [][\A f \in LedgerFiles :
           (f \in disk /\ last_op'.op = "add_image" /\ Insert(f))
           => LET grown == <<image_info(path_join(StorageDir, f))>> \o images
              IN  /\ images' = SubSeq(grown, 1, Min(Len(grown), max_images))
                  /\ uploaded_images' = uploaded_images
                  /\ upload_status_file' = upload_status_file]_vars

\* C35 witness: an add_image has evicted an entry that was pending; it is
\* neither in the queue nor in the ledger.
C35_Witness ==
    /\ last_op.op = "add_image" /\ last_op.ok
    /\ last_op.arg # 0
    /\ last_op.arg \notin uploaded_images
    /\ last_op.arg \notin Filenames(images)
    /\ Len(images) = max_images

====
